---- MODULE Spec2Model ----
(***************************************************************************)
(* Order lifecycle of the quickdish backend (src/api/crud/order.py):       *)
(* create_order (validation pipeline, pricing, persistence) and            *)
(* update_order_status (authorization, role/status/update dispatch,        *)
(* satellite records).                                                     *)
(*                                                                         *)
(* Three specifications share the variables:                               *)
(*   Spec        handlers run one after another.  The handlers are async   *)
(*               functions without a suspension point, so within one event *)
(*               loop a call runs to completion before the next starts.    *)
(*   SpecCreate  create_order applied to every payload of a bounded space. *)
(*   SpecConc    requests of several sessions interleave at the store: a   *)
(*               step is everything a session does up to and including a   *)
(*               commit (several workers, or any other client of the       *)
(*               store).                                                   *)
(***************************************************************************)
EXTENDS Integers, Sequences, FiniteSets, TLC

(* ------------------------------ bounds ------------------------------- *)

\* orders created in one behaviour
MaxOrders == 1
\* options selected in a payload, over all its items
MaxSelected == 2

(* ------------------------ identities and inputs ----------------------- *)

\* user ids; customers and merchants are separate id spaces
Users == {1, 2}
Roles == {"CUSTOMER", "MERCHANT"}
\* ids a payload may name; 9 is the id of no row
RestaurantIds == {1, 2, 9}
MenuIds == {1, 2, 9}
OptionIds == {1, 2, 9}
Quantities == {0, 1}
\* a payload has no line item, one, or a first and a later one
ItemCounts == {0, 1, 2}
Reasons == {"late"}
\* the values int(time.time()) returns: the calls of a behaviour fall within one
\* second of the clock
Times == {1}
UpdateKinds == {"Cancel", "Preparing", "Ready", "Settle"}

(* ----------------- rows read by the validation queries ---------------- *)

Restaurants ==
    { [id |-> 1, merchant_id |-> 1],
      [id |-> 2, merchant_id |-> 2] }

Menus ==
    { [id |-> 1, restaurant_id |-> 1, price |-> 800],
      [id |-> 2, restaurant_id |-> 2, price |-> 500] }

Customizations ==
    { [id |-> 1, menu_id |-> 1, required |-> TRUE, unique |-> TRUE] }

Options ==
    { [id |-> 1, customization_id |-> 1, extra_price |-> <<150>>],
      [id |-> 2, customization_id |-> 1, extra_price |-> <<>>] }

(* ------------------------------- state -------------------------------- *)

VARIABLES
    payload,           \* the OrderCreate body submitted by create_order calls
    orders,            \* Order rows; the id of a row is its index
    order_items,       \* OrderItem rows; the id of a row is its index
    order_options,     \* OrderOption rows
    cancelled_orders,  \* CancelledOrder rows
    preparing_orders,  \* PreparingOrder rows
    ready_orders,      \* ReadyOrder rows
    settled_orders,    \* SettledOrder rows
    uncommitted,       \* ids of the Order rows flushed in a transaction still open
    sessions,          \* per session: the request in progress
    last               \* the last call answered

vars == << payload, orders, order_items, order_options, cancelled_orders,
           preparing_orders, ready_orders, settled_orders, uncommitted, sessions,
           last >>

tables == << orders, order_items, order_options, cancelled_orders,
             preparing_orders, ready_orders, settled_orders >>

satellites == << cancelled_orders, preparing_orders, ready_orders, settled_orders >>

(* ------------------------------ payloads ------------------------------ *)

\* an OrderCreate line item selecting k options
ItemsWith(k) ==
    { [menu_id |-> m, quantity |-> q, options |-> os, extra_requests |-> "none"] :
        m \in MenuIds, q \in Quantities, os \in [1..k -> OptionIds] }

\* the sequences of n line items selecting at most budget options in all
RECURSIVE ItemSeqs(_, _)
ItemSeqs(n, budget) ==
    IF n = 0 THEN { <<>> }
    ELSE UNION { { <<it>> \o rest : it \in ItemsWith(k),
                                    rest \in ItemSeqs(n - 1, budget - k) } :
                 k \in 0..budget }

Payloads ==
    { [restaurant_id |-> r, items |-> its] :
        r \in RestaurantIds,
        its \in UNION { ItemSeqs(n, MaxSelected) : n \in ItemCounts } }

\* the payloads the status machine is exercised with: a one-item order of
\* each restaurant, an order without items, and an invalid order
StatusPayloads ==
    { [restaurant_id |-> 1,
       items |-> << [menu_id |-> 1, quantity |-> 1, options |-> <<1>>,
                     extra_requests |-> "none"] >>],
      [restaurant_id |-> 2,
       items |-> << [menu_id |-> 2, quantity |-> 1, options |-> <<>>,
                     extra_requests |-> "none"] >>],
      [restaurant_id |-> 1, items |-> <<>>],
      [restaurant_id |-> 1,
       items |-> << [menu_id |-> 1, quantity |-> 0, options |-> <<1>>,
                     extra_requests |-> "none"] >>] }

(* --------------------- create_order: validation ----------------------- *)

Range(seq) == { seq[i] : i \in DOMAIN seq }

\* list.count
Count(seq, x) == Cardinality({ i \in DOMAIN seq : seq[i] = x })

Failure(res, msg) == [res |-> res, msg |-> msg, price |-> 0, seen |-> <<>>]

\* get_restaurant: the restaurant rows with the id (none: NotFoundError)
GetRestaurant(restaurant_id) == { r \in Restaurants : r.id = restaurant_id }

\* query(Menu).filter(Menu.id == order.menu_id)
MenuQuery(menu_id) == { m \in Menus : m.id = menu_id }

\* query(Option, Customization).filter(Option.id == option_id,
\*                                     Customization.id == Option.customization_id)
OptionQuery(option_id) ==
    { oc \in Options \X Customizations :
        oc[1].id = option_id /\ oc[2].id = oc[1].customization_id }

\* the loop over order.options without the addition of option.extra_price
RECURSIVE CheckOptionsNoExtra(_, _, _, _)
CheckOptionsNoExtra(menu, opts, seen, price) ==
    IF opts = <<>> THEN [res |-> "OK", msg |-> "", price |-> price, seen |-> seen]
    ELSE LET result == OptionQuery(Head(opts)) IN
         IF result = {} THEN Failure("NotFoundError", "option not found")
         ELSE LET first == CHOOSE oc \in result : TRUE
                  customization == first[2]
              IN IF customization.menu_id # menu.id
                 THEN Failure("InvalidArgumentError", "option not in menu")
                 ELSE CheckOptionsNoExtra(menu, Tail(opts),
                                          Append(seen, customization.id), price)

\* the loop over order.options, from the head of opts: the customizations seen
\* and the running price, or the first error
RECURSIVE CheckOptions(_, _, _, _)
CheckOptions(menu, opts, seen, price) ==
    IF opts = <<>> THEN [res |-> "OK", msg |-> "", price |-> price, seen |-> seen]
    ELSE LET result == OptionQuery(Head(opts)) IN
         IF result = {} THEN Failure("NotFoundError", "option not found")
         ELSE LET first == CHOOSE oc \in result : TRUE
                  option == first[1]
                  customization == first[2]
              IN IF customization.menu_id # menu.id
                 THEN Failure("InvalidArgumentError", "option not in menu")
                 ELSE CheckOptions(menu, Tail(opts), Append(seen, customization.id),
                                   IF option.extra_price # <<>>
                                   THEN price + option.extra_price[1]
                                   ELSE price)

\* the required check made only for an item that selected some option
RequiredMissingWhenSelected(menu, seen) ==
    /\ seen # <<>>
    /\ \E c \in Customizations :
          c.menu_id = menu.id /\ c.required /\ c.id \notin Range(seen)

\* some required customization of the menu was not seen
RequiredMissing(menu, seen) ==
    \E c \in Customizations :
        c.menu_id = menu.id /\ c.required /\ c.id \notin Range(seen)

\* the unique check counting the distinct ids seen instead of the occurrences
UniqueViolatedDistinct(menu, seen) ==
    \E c \in Customizations :
        c.menu_id = menu.id /\ c.unique
           /\ Cardinality({ x \in Range(seen) : x = c.id }) > 1

\* some unique customization of the menu was seen more than once
UniqueViolated(menu, seen) ==
    \E c \in Customizations :
        c.menu_id = menu.id /\ c.unique /\ Count(seen, c.id) > 1

\* the pass over an item without the comparison of the menu's restaurant
CheckItemAnyRestaurant(restaurant, item, price) ==
    LET found == MenuQuery(item.menu_id) IN
    IF found = {} THEN Failure("NotFoundError", "menu not found")
    ELSE LET menu == CHOOSE m \in found : TRUE IN
         IF item.quantity < 1
         THEN Failure("InvalidArgumentError", "quantity")
         ELSE LET o == CheckOptions(menu, item.options, <<>>, price + menu.price) IN
              IF o.res # "OK" THEN o
              ELSE IF RequiredMissing(menu, o.seen)
              THEN Failure("InvalidArgumentError", "required customization")
              ELSE IF UniqueViolated(menu, o.seen)
              THEN Failure("InvalidArgumentError", "unique customization")
              ELSE o

\* the pass over an item with the quantity checked before the menu is queried
CheckItemQuantityFirst(restaurant, item, price) ==
    IF item.quantity < 1 THEN Failure("InvalidArgumentError", "quantity")
    ELSE
    LET found == MenuQuery(item.menu_id) IN
    IF found = {} THEN Failure("NotFoundError", "menu not found")
    ELSE LET menu == CHOOSE m \in found : TRUE IN
         IF menu.restaurant_id # restaurant.id
         THEN Failure("InvalidArgumentError", "menu not in restaurant")
         ELSE LET o == CheckOptions(menu, item.options, <<>>, price + menu.price) IN
              IF o.res # "OK" THEN o
              ELSE IF RequiredMissing(menu, o.seen)
              THEN Failure("InvalidArgumentError", "required customization")
              ELSE IF UniqueViolated(menu, o.seen)
              THEN Failure("InvalidArgumentError", "unique customization")
              ELSE o

\* one pass of the loop over payload.items: the running price after the item,
\* or the first error
CheckItem(restaurant, item, price) ==
    LET found == MenuQuery(item.menu_id) IN
    IF found = {} THEN Failure("NotFoundError", "menu not found")
    ELSE LET menu == CHOOSE m \in found : TRUE IN
         IF menu.restaurant_id # restaurant.id
         THEN Failure("InvalidArgumentError", "menu not in restaurant")
         ELSE IF item.quantity < 1
         THEN Failure("InvalidArgumentError", "quantity")
         ELSE LET o == CheckOptions(menu, item.options, <<>>, price + menu.price) IN
              IF o.res # "OK" THEN o
              ELSE IF RequiredMissing(menu, o.seen)
              THEN Failure("InvalidArgumentError", "required customization")
              ELSE IF UniqueViolated(menu, o.seen)
              THEN Failure("InvalidArgumentError", "unique customization")
              ELSE o

RECURSIVE CheckItems(_, _, _)
CheckItems(restaurant, items, price) ==
    IF items = <<>> THEN [res |-> "OK", msg |-> "", price |-> price, seen |-> <<>>]
    ELSE LET v == CheckItem(restaurant, Head(items), price) IN
         IF v.res # "OK" THEN v
         ELSE CheckItems(restaurant, Tail(items), v.price)

\* lines 45-134 of create_order: the outcome of the validation and price_paid
Validate(p) ==
    LET rs == GetRestaurant(p.restaurant_id) IN
    IF rs = {} THEN Failure("NotFoundError", "restaurant not found")
    ELSE CheckItems(CHOOSE r \in rs : TRUE, p.items, 0)

(* --------------------- create_order: persistence ---------------------- *)

\* str(OrderStatusFlag.ORDERED): the enumeration is a string enumeration whose
\* member ORDERED is stored as, and compares equal to, the status ORDERED
OrderedFlag == "ORDERED"

NewOrder(customer_id, p, price_paid, ordered_at) ==
    [customer_id |-> customer_id, restaurant_id |-> p.restaurant_id,
     ordered_at |-> ordered_at, price_paid |-> price_paid, status |-> OrderedFlag]

NewOrderItem(order_id, item) ==
    [order_id |-> order_id, menu_id |-> item.menu_id, quantity |-> item.quantity,
     extra_requests |-> item.extra_requests]

NewOrderOptions(order_item_id, item) ==
    [j \in 1..Len(item.options) |->
        [order_item_id |-> order_item_id, option_id |-> item.options[j]]]

\* the OrderItem rows of the payload's items, in payload order
ItemRows(order_id, items) ==
    [i \in 1..Len(items) |-> NewOrderItem(order_id, items[i])]

\* the OrderOption rows of the payload's items; the first item gets id first_id
RECURSIVE OptionRows(_, _)
OptionRows(first_id, items) ==
    IF items = <<>> THEN <<>>
    ELSE NewOrderOptions(first_id, Head(items)) \o OptionRows(first_id + 1, Tail(items))

\* create_order with the Order row added and committed before the loop that
\* validates the items
CreateEffectOrderFirst(v, customer_id, ordered_at, kept) ==
    IF v.res = "OK" /\ (payload.items # <<>> \/ kept)
    THEN [orders |-> Append(orders, NewOrder(customer_id, payload, v.price, ordered_at)),
          order_items |-> order_items \o ItemRows(Len(orders) + 1, payload.items),
          order_options |-> order_options
                              \o OptionRows(Len(order_items) + 1, payload.items)]
    ELSE [orders |-> IF GetRestaurant(payload.restaurant_id) # {}
                     THEN Append(orders, NewOrder(customer_id, payload, 0, ordered_at))
                     ELSE orders,
          order_items |-> order_items,
          order_options |-> order_options]

\* the Order, OrderItem and OrderOption rows after create_order: a raise of
\* the validation leaves before the first add; the writes follow it.  An Order
\* without items is flushed and never committed by the handler: it stays
\* (kept: the session commits or is read later) or is rolled back with the
\* session.
CreateEffect(v, customer_id, ordered_at, kept) ==
    IF v.res = "OK" /\ (payload.items # <<>> \/ kept)
    THEN [orders |-> Append(orders, NewOrder(customer_id, payload, v.price, ordered_at)),
          order_items |-> order_items \o ItemRows(Len(orders) + 1, payload.items),
          order_options |-> order_options
                              \o OptionRows(Len(order_items) + 1, payload.items)]
    ELSE [orders |-> orders, order_items |-> order_items,
          order_options |-> order_options]

\* a call of a handler: its arguments, the status of the order it read, and
\* what the caller gets back (the error raised and its message, or "OK")
\* a handler that returns no status returns none
NoReturn == [variant |-> "none"]

Call(op, user_id, role, order_id, update, pre, res, msg) ==
    [op |-> op, user |-> user_id, role |-> role, oid |-> order_id,
     kind |-> update.kind, reason |-> update.reason, pre |-> pre,
     res |-> res, msg |-> msg, ret |-> NoReturn]

NoUpdate == [kind |-> "", reason |-> ""]

\* a call of create_order
CreateCall(customer_id, res, msg) ==
    Call("create", customer_id, "CUSTOMER", 0, NoUpdate, "", res, msg)

\* create_order(state, customer_id, payload), run to completion
CreateOrder(customer_id, ordered_at) ==
    /\ Len(orders) < MaxOrders
    /\ LET v == Validate(payload) IN
       \E kept \in BOOLEAN :
          LET after == CreateEffect(v, customer_id, ordered_at, kept) IN
          /\ kept \/ (v.res = "OK" /\ payload.items = <<>>)
          /\ orders' = after.orders
          /\ order_items' = after.order_items
          /\ order_options' = after.order_options
          /\ last' = CreateCall(customer_id, v.res, v.msg)
    /\ UNCHANGED << payload, satellites, uncommitted, sessions >>

(* ------------------------ update_order_status ------------------------- *)

\* query(Order).filter(Order.id == order_id): rows of open transactions of
\* other sessions are not seen
OrderQuery(order_id) ==
    { id \in DOMAIN orders : id = order_id /\ id \notin uncommitted }

\* __get_order_with_validation without the comparison of the customer ids
GetOrderNoCustomerCheck(user_id, role, order_id) ==
    IF OrderQuery(order_id) = {} THEN "NotFoundError"
    ELSE IF role = "CUSTOMER" THEN "OK"
    ELSE IF { r \in Restaurants : r.merchant_id = user_id
                                  /\ r.id = orders[order_id].restaurant_id } = {}
         THEN "UnauthorizedError" ELSE "OK"

\* __get_order_with_validation: "OK" or the error raised
GetOrderWithValidation(user_id, role, order_id) ==
    IF OrderQuery(order_id) = {} THEN "NotFoundError"
    ELSE IF role = "CUSTOMER"
    THEN IF orders[order_id].customer_id # user_id
         THEN "UnauthorizedError" ELSE "OK"
    ELSE IF { r \in Restaurants : r.merchant_id = user_id
                                  /\ r.id = orders[order_id].restaurant_id } = {}
         THEN "UnauthorizedError" ELSE "OK"

Move(to) == [ok |-> TRUE, to |-> to, msg |-> ""]
Reject(msg) == [ok |-> FALSE, to |-> "", msg |-> msg]
NoMatch == [ok |-> TRUE, to |-> "", msg |-> ""]

\* the customer cases with Settle accepted from PREPARING as well
CustomerUpdateSettleFromPreparing(status, kind) ==
    IF status = "ORDERED" /\ kind = "Cancel" THEN Move("CANCELLED")
    ELSE IF status \in {"READY", "PREPARING"} /\ kind = "Settle" THEN Move("SETTLED")
    ELSE IF kind = "Cancel" THEN Reject("order can't be cancelled anymore")
    ELSE IF kind = "Settle" THEN Reject("order can only be settled when it's ready")
    ELSE Reject("only cancellation or settled are allowed")

\* the customer cases with Settle accepted in any status
CustomerUpdateSettleAnytime(status, kind) ==
    IF status = "ORDERED" /\ kind = "Cancel" THEN Move("CANCELLED")
    ELSE IF kind = "Settle" THEN Move("SETTLED")
    ELSE IF kind = "Cancel" THEN Reject("order can't be cancelled anymore")
    ELSE Reject("only cancellation or settled are allowed")

\* the customer cases with Cancel accepted from PREPARING as well
CustomerUpdateCancelLate(status, kind) ==
    IF status \in {"ORDERED", "PREPARING"} /\ kind = "Cancel" THEN Move("CANCELLED")
    ELSE IF status = "READY" /\ kind = "Settle" THEN Move("SETTLED")
    ELSE IF kind = "Cancel" THEN Reject("order can't be cancelled anymore")
    ELSE IF kind = "Settle" THEN Reject("order can only be settled when it's ready")
    ELSE Reject("only cancellation or settled are allowed")

\* the cases of the match for Role.CUSTOMER, in the order written
CustomerUpdate(status, kind) ==
    IF status = "ORDERED" /\ kind = "Cancel" THEN Move("CANCELLED")
    ELSE IF status = "READY" /\ kind = "Settle" THEN Move("SETTLED")
    ELSE IF kind = "Cancel" THEN Reject("order can't be cancelled anymore")
    ELSE IF kind = "Settle" THEN Reject("order can only be settled when it's ready")
    ELSE Reject("only cancellation or settled are allowed")

\* the merchant cases with MarkReady accepted from ORDERED as well
MerchantUpdateReadyEarly(status, kind) ==
    IF status = "ORDERED" /\ kind = "Preparing" THEN Move("PREPARING")
    ELSE IF kind = "Preparing" THEN Reject("order can be prepared only once")
    ELSE IF status \in {"ORDERED", "PREPARING"} /\ kind = "Ready" THEN Move("READY")
    ELSE IF kind = "Ready" THEN Reject("order can be ready after it's prepared")
    ELSE IF status \in {"PREPARING", "ORDERED"} /\ kind = "Cancel"
    THEN Move("CANCELLED")
    ELSE IF kind = "Cancel" THEN Reject("order can't be cancelled anymore")
    ELSE IF kind = "Settle" THEN Reject("order can't be settled by merchant")
    ELSE NoMatch

\* the merchant cases with Cancel accepted from READY as well
MerchantUpdateCancelLate(status, kind) ==
    IF status = "ORDERED" /\ kind = "Preparing" THEN Move("PREPARING")
    ELSE IF kind = "Preparing" THEN Reject("order can be prepared only once")
    ELSE IF status = "PREPARING" /\ kind = "Ready" THEN Move("READY")
    ELSE IF kind = "Ready" THEN Reject("order can be ready after it's prepared")
    ELSE IF status \in {"READY", "PREPARING", "ORDERED"} /\ kind = "Cancel"
    THEN Move("CANCELLED")
    ELSE IF kind = "Cancel" THEN Reject("order can't be cancelled anymore")
    ELSE IF kind = "Settle" THEN Reject("order can't be settled by merchant")
    ELSE NoMatch

\* the cases of the match for Role.MERCHANT, in the order written; an update
\* matching no case falls out of the match: no error and no change
MerchantUpdate(status, kind) ==
    IF status = "ORDERED" /\ kind = "Preparing" THEN Move("PREPARING")
    ELSE IF kind = "Preparing" THEN Reject("order can be prepared only once")
    ELSE IF status = "PREPARING" /\ kind = "Ready" THEN Move("READY")
    ELSE IF kind = "Ready" THEN Reject("order can be ready after it's prepared")
    ELSE IF status \in {"PREPARING", "ORDERED"} /\ kind = "Cancel"
    THEN Move("CANCELLED")
    ELSE IF kind = "Cancel" THEN Reject("order can't be cancelled anymore")
    ELSE IF kind = "Settle" THEN Reject("order can't be settled by merchant")
    ELSE NoMatch

\* match role, order.status, status
Transition(role, status, kind) ==
    IF role = "CUSTOMER" THEN CustomerUpdate(status, kind)
    ELSE MerchantUpdate(status, kind)

\* the requested updates: CancelledOrderUpdate(reason), PreparingOrderUpdate(),
\* ReadyOrderUpdate(), SettledOrderUpdate()
Updates ==
    { [kind |-> "Cancel", reason |-> r] : r \in Reasons }
        \cup { [kind |-> k, reason |-> ""] : k \in UpdateKinds \ {"Cancel"} }

\* session.add of the satellite row of the case matched
\* the rows added by the cases, with a Cancel that deletes the PreparingOrder
\* row of the order it cancels
SatellitesAfterDropPreparing(role, order_id, to, reason, at) ==
    [cancelled |->
        IF to = "CANCELLED"
        THEN Append(cancelled_orders,
                    [order_id |-> order_id, cancelled_time |-> at,
                     cancelled_by |-> role, reason |-> reason])
        ELSE cancelled_orders,
     preparing |->
        IF to = "PREPARING"
        THEN Append(preparing_orders, [order_id |-> order_id, prepared_at |-> at])
        ELSE IF to = "CANCELLED"
        THEN SelectSeq(preparing_orders, LAMBDA r : r.order_id # order_id)
        ELSE preparing_orders,
     ready |->
        IF to = "READY"
        THEN Append(ready_orders, [order_id |-> order_id, ready_at |-> at])
        ELSE ready_orders,
     settled |->
        IF to = "SETTLED"
        THEN Append(settled_orders, [order_id |-> order_id, settled_at |-> at])
        ELSE settled_orders]

SatellitesAfter(role, order_id, to, reason, at) ==
    [cancelled |->
        IF to = "CANCELLED"
        THEN Append(cancelled_orders,
                    [order_id |-> order_id, cancelled_time |-> at,
                     cancelled_by |-> role, reason |-> reason])
        ELSE cancelled_orders,
     preparing |->
        IF to = "PREPARING"
        THEN Append(preparing_orders, [order_id |-> order_id, prepared_at |-> at])
        ELSE preparing_orders,
     ready |->
        IF to = "READY"
        THEN Append(ready_orders, [order_id |-> order_id, ready_at |-> at])
        ELSE ready_orders,
     settled |->
        IF to = "SETTLED"
        THEN Append(settled_orders, [order_id |-> order_id, settled_at |-> at])
        ELSE settled_orders]

\* an assignment of the status that also clears the price of a cancelled order
StatusAfterRepriced(order_id, to) ==
    IF to = "" THEN orders
    ELSE IF to = "CANCELLED"
    THEN [orders EXCEPT ![order_id].status = to, ![order_id].price_paid = 0]
    ELSE [orders EXCEPT ![order_id].status = to]

\* order.status = <the new status>
StatusAfter(order_id, to) ==
    IF to = "" THEN orders ELSE [orders EXCEPT ![order_id].status = to]

\* a commit of the status without the satellite row
CommitStatusOnly(res, role, order_id, to, reason, at) ==
    IF res = "OK"
    THEN /\ orders' = StatusAfter(order_id, to)
         /\ UNCHANGED satellites
    ELSE UNCHANGED << orders, satellites >>

\* a Cancel that adds its row and assigns the status before the status of the
\* order is looked at, and commits them although the case raises
CommitCancelUnchecked(res, role, order_id, to, reason, at) ==
    LET target == IF res = "InvalidArgumentError" /\ reason # "" THEN "CANCELLED"
                  ELSE to
        sat == SatellitesAfter(role, order_id, target, reason, at)
    IN
    IF res \in {"OK", "InvalidArgumentError"}
    THEN /\ orders' = StatusAfter(order_id, target)
         /\ cancelled_orders' = sat.cancelled
         /\ preparing_orders' = sat.preparing
         /\ ready_orders' = sat.ready
         /\ settled_orders' = sat.settled
    ELSE UNCHANGED << orders, satellites >>

\* what the match leaves in the session and commits: under a case that moves
\* the order, the satellite row and the status together; a case that raises
\* comes before any add
Commit(res, role, order_id, to, reason, at) ==
    LET sat == SatellitesAfter(role, order_id, to, reason, at) IN
    IF res = "OK"
    THEN /\ orders' = StatusAfter(order_id, to)
         /\ cancelled_orders' = sat.cancelled
         /\ preparing_orders' = sat.preparing
         /\ ready_orders' = sat.ready
         /\ settled_orders' = sat.settled
    ELSE UNCHANGED << orders, satellites >>

\* update_order_status(state, user_id, role, order_id, status), run to completion
UpdateOrderStatus(user_id, role, order_id, update, at) ==
    LET a == GetOrderWithValidation(user_id, role, order_id)
        pre == IF OrderQuery(order_id) = {} THEN "" ELSE orders[order_id].status
        t == Transition(role, pre, update.kind)
        res == IF a # "OK" THEN a
               ELSE IF ~t.ok THEN "InvalidArgumentError" ELSE "OK"
    IN
    /\ Commit(res, role, order_id, t.to, update.reason, at)
    /\ last' = Call("update", user_id, role, order_id, update, pre, res,
                     IF a = "OK" THEN t.msg ELSE "")
    /\ UNCHANGED << payload, order_items, order_options, uncommitted, sessions >>

(* --------------------------- get_order_status ------------------------- *)

\* query(<satellite>).filter(<satellite>.order_id == order.id): the rows that
\* first() may return
SatelliteQuery(tbl, order_id) ==
    { tbl[i] : i \in { j \in DOMAIN tbl : tbl[j].order_id = order_id } }

Returned(ret) == [res |-> "OK", ret |-> ret]
InternalError == [res |-> "InternalServerError", ret |-> NoReturn]

\* the status lookup with the reason of a cancellation filled from cancelled_by
GetStatusReasonMixedUp(order_id) ==
    LET status == orders[order_id].status IN
    IF status = "ORDERED" THEN { Returned([variant |-> "Ordered"]) }
    ELSE IF status = "CANCELLED"
    THEN IF SatelliteQuery(cancelled_orders, order_id) = {} THEN { InternalError }
         ELSE { Returned([variant |-> "Cancelled", cancelled_by |-> r.cancelled_by,
                          cancelled_time |-> r.cancelled_time,
                          reason |-> r.cancelled_by]) :
                  r \in SatelliteQuery(cancelled_orders, order_id) }
    ELSE IF status = "PREPARING"
    THEN IF SatelliteQuery(preparing_orders, order_id) = {} THEN { InternalError }
         ELSE { Returned([variant |-> "Preparing", prepared_at |-> r.prepared_at]) :
                  r \in SatelliteQuery(preparing_orders, order_id) }
    ELSE IF status = "READY"
    THEN IF SatelliteQuery(ready_orders, order_id) = {} THEN { InternalError }
         ELSE { Returned([variant |-> "Ready", ready_at |-> r.ready_at]) :
                  r \in SatelliteQuery(ready_orders, order_id) }
    ELSE IF status = "SETTLED"
    THEN IF SatelliteQuery(settled_orders, order_id) = {} THEN { InternalError }
         ELSE { Returned([variant |-> "Settled", settled_at |-> r.settled_at]) :
                  r \in SatelliteQuery(settled_orders, order_id) }
    ELSE { Returned(NoReturn) }

\* __get_status_no_validation: the outcomes of the match on order.status, one
\* for each row first() may return; a status matching no case returns None
GetStatusNoValidation(order_id) ==
    LET status == orders[order_id].status IN
    IF status = "ORDERED" THEN { Returned([variant |-> "Ordered"]) }
    ELSE IF status = "CANCELLED"
    THEN IF SatelliteQuery(cancelled_orders, order_id) = {} THEN { InternalError }
         ELSE { Returned([variant |-> "Cancelled", cancelled_by |-> r.cancelled_by,
                          cancelled_time |-> r.cancelled_time,
                          reason |-> r.reason]) :
                  r \in SatelliteQuery(cancelled_orders, order_id) }
    ELSE IF status = "PREPARING"
    THEN IF SatelliteQuery(preparing_orders, order_id) = {} THEN { InternalError }
         ELSE { Returned([variant |-> "Preparing", prepared_at |-> r.prepared_at]) :
                  r \in SatelliteQuery(preparing_orders, order_id) }
    ELSE IF status = "READY"
    THEN IF SatelliteQuery(ready_orders, order_id) = {} THEN { InternalError }
         ELSE { Returned([variant |-> "Ready", ready_at |-> r.ready_at]) :
                  r \in SatelliteQuery(ready_orders, order_id) }
    ELSE IF status = "SETTLED"
    THEN IF SatelliteQuery(settled_orders, order_id) = {} THEN { InternalError }
         ELSE { Returned([variant |-> "Settled", settled_at |-> r.settled_at]) :
                  r \in SatelliteQuery(settled_orders, order_id) }
    ELSE { Returned(NoReturn) }

\* a call of get_order_status and the status it returned
StatusCall(user_id, role, order_id, pre, out) ==
    [Call("status", user_id, role, order_id, NoUpdate, pre, out.res, "")
        EXCEPT !.ret = out.ret]

\* get_order_status(state, user_id, role, order_id)
GetOrderStatus(user_id, role, order_id) ==
    LET a == GetOrderWithValidation(user_id, role, order_id)
        pre == IF OrderQuery(order_id) = {} THEN "" ELSE orders[order_id].status
    IN
    /\ \E out \in IF a # "OK" THEN { [res |-> a, ret |-> NoReturn] }
                   ELSE GetStatusNoValidation(order_id) :
          last' = StatusCall(user_id, role, order_id, pre, out)
    /\ UNCHANGED << payload, tables, uncommitted, sessions >>

(* -------------- requests of several sessions, step by step ------------- *)

Sessions == {1, 2}

\* a session with no request in progress
Idle ==
    [pc |-> "idle", user |-> 0, order_id |-> 0, item |-> 0, item_id |-> 0,
     option |-> 0, role |-> "", update |-> NoUpdate, pre |-> "", to |-> "", at |-> 0]

\* where create_order stands after the commit of option `option` of item
\* `item` (0: of the item itself), whose row has id item_id
AfterCommit(r, item_id, option) ==
    IF option < Len(payload.items[r.item].options)
    THEN [r EXCEPT !.pc = "option", !.item_id = item_id, !.option = option + 1]
    ELSE IF r.item < Len(payload.items)
    THEN [r EXCEPT !.pc = "item", !.item = r.item + 1, !.item_id = 0, !.option = 0]
    ELSE Idle

\* create_order up to the flush of the Order row: the validation, and the row
\* added in the session's transaction; without items the handler returns here
\* and the row is rolled back with the session
CreateBegin(s, customer_id, ordered_at) ==
    /\ sessions[s].pc = "idle"
    /\ Len(orders) < MaxOrders
    /\ LET v == Validate(payload) IN
       /\ IF v.res # "OK"
          THEN UNCHANGED << orders, uncommitted, sessions >>
          ELSE /\ orders' = Append(orders,
                                   NewOrder(customer_id, payload, v.price, ordered_at))
               /\ uncommitted' = uncommitted \cup {Len(orders) + 1}
               /\ sessions' =
                    [sessions EXCEPT ![s] =
                        IF payload.items = <<>> THEN Idle
                        ELSE [Idle EXCEPT !.pc = "item", !.user = customer_id,
                                          !.order_id = Len(orders) + 1, !.item = 1]]
       /\ last' = IF v.res = "OK" /\ payload.items # <<>> THEN last
                  ELSE CreateCall(customer_id, v.res, v.msg)
    /\ UNCHANGED << payload, order_items, order_options, satellites >>

\* session.add(order_item); session.commit(): the first commit also commits
\* the Order row
CreateCommitItem(s) ==
    LET r == sessions[s]
        next == AfterCommit(r, Len(order_items) + 1, 0)
    IN
    /\ r.pc = "item"
    /\ order_items' = Append(order_items,
                             NewOrderItem(r.order_id, payload.items[r.item]))
    /\ uncommitted' = uncommitted \ {r.order_id}
    /\ sessions' = [sessions EXCEPT ![s] = next]
    /\ last' = IF next.pc = "idle" THEN CreateCall(r.user, "OK", "") ELSE last
    /\ UNCHANGED << payload, orders, order_options, satellites >>

\* session.add(OrderOption(...)); session.commit()
CreateCommitOption(s) ==
    LET r == sessions[s]
        next == AfterCommit(r, r.item_id, r.option)
    IN
    /\ r.pc = "option"
    /\ order_options' =
         Append(order_options,
                [order_item_id |-> r.item_id,
                 option_id |-> payload.items[r.item].options[r.option]])
    /\ sessions' = [sessions EXCEPT ![s] = next]
    /\ last' = IF next.pc = "idle" THEN CreateCall(r.user, "OK", "") ELSE last
    /\ UNCHANGED << payload, orders, order_items, uncommitted, satellites >>

\* update_order_status up to its commit: the order read and authorized, the
\* case matched, the satellite row added and the status assigned in the session
UpdateBegin(s, user_id, role, order_id, update, at) ==
    LET a == GetOrderWithValidation(user_id, role, order_id)
        pre == IF OrderQuery(order_id) = {} THEN "" ELSE orders[order_id].status
        t == Transition(role, pre, update.kind)
    IN
    /\ sessions[s].pc = "idle"
    /\ IF a # "OK"
       THEN /\ last' = Call("update", user_id, role, order_id, update, pre, a, "")
            /\ UNCHANGED sessions
       ELSE IF ~t.ok
       THEN /\ last' = Call("update", user_id, role, order_id, update, pre,
                            "InvalidArgumentError", t.msg)
            /\ UNCHANGED sessions
       ELSE /\ sessions' =
                 [sessions EXCEPT ![s] =
                     [Idle EXCEPT !.pc = "commit", !.user = user_id,
                                  !.order_id = order_id, !.role = role,
                                  !.update = update, !.pre = pre, !.to = t.to,
                                  !.at = at]]
            /\ UNCHANGED last
    /\ UNCHANGED << payload, tables, uncommitted >>

\* session.commit() of update_order_status: INSERT of the satellite row and
\* UPDATE of the status of the row with the order's id, whatever it holds now
UpdateCommit(s) ==
    LET r == sessions[s] IN
    /\ r.pc = "commit"
    /\ Commit("OK", r.role, r.order_id, r.to, r.update.reason, r.at)
    /\ sessions' = [sessions EXCEPT ![s] = Idle]
    /\ last' = Call("update", r.user, r.role, r.order_id, r.update, r.pre, "OK", "")
    /\ UNCHANGED << payload, order_items, order_options, uncommitted >>

\* the rows of the satellite table of status `to` keyed by the order
SatelliteRows(order_id, to) ==
    LET tbl == IF to = "CANCELLED" THEN cancelled_orders
               ELSE IF to = "PREPARING" THEN preparing_orders
               ELSE IF to = "READY" THEN ready_orders
               ELSE IF to = "SETTLED" THEN settled_orders
               ELSE <<>>
    IN { i \in DOMAIN tbl : tbl[i].order_id = order_id }

\* session.commit() of update_order_status refused by the store: the satellite
\* tables are keyed by order id, and a row of the order is there already
UpdateCommitRefused(s) ==
    LET r == sessions[s] IN
    /\ r.pc = "commit"
    /\ SatelliteRows(r.order_id, r.to) # {}
    /\ sessions' = [sessions EXCEPT ![s] = Idle]
    /\ last' = Call("update", r.user, r.role, r.order_id, r.update, r.pre,
                     "IntegrityError", "")
    /\ UNCHANGED << payload, tables, uncommitted >>

(* --------------------------- specifications -------------------------- *)

NoCall == Call("none", 0, "", 0, NoUpdate, "", "", "")

InitStore ==
    /\ orders = <<>>
    /\ order_items = <<>>
    /\ order_options = <<>>
    /\ cancelled_orders = <<>>
    /\ preparing_orders = <<>>
    /\ ready_orders = <<>>
    /\ settled_orders = <<>>
    /\ uncommitted = {}
    /\ sessions = [s \in Sessions |-> Idle]
    /\ last = NoCall

Init == payload \in StatusPayloads /\ InitStore

\* the ids a request may name: those of the orders there can be, and one more
OrderIds == 1..(MaxOrders + 1)

Next ==
    \/ \E customer_id \in Users, at \in Times : CreateOrder(customer_id, at)
    \/ \E user_id \in Users, role \in Roles, order_id \in OrderIds,
          update \in Updates, at \in Times :
          UpdateOrderStatus(user_id, role, order_id, update, at)
    \/ \E user_id \in Users, role \in Roles, order_id \in OrderIds :
          GetOrderStatus(user_id, role, order_id)

Spec == Init /\ [][Next]_vars

InitCreate == payload \in Payloads /\ InitStore

NextCreate == \E customer_id \in Users, at \in Times : CreateOrder(customer_id, at)

SpecCreate == InitCreate /\ [][NextCreate]_vars

NextConc ==
    \/ \E s \in Sessions, customer_id \in Users, at \in Times :
          CreateBegin(s, customer_id, at)
    \/ \E s \in Sessions : CreateCommitItem(s)
    \/ \E s \in Sessions : CreateCommitOption(s)
    \/ \E s \in Sessions, user_id \in Users, role \in Roles, order_id \in OrderIds,
          update \in Updates, at \in Times :
          UpdateBegin(s, user_id, role, order_id, update, at)
    \/ \E s \in Sessions : UpdateCommit(s)
    \/ \E s \in Sessions : UpdateCommitRefused(s)

\* the interleavings are explored for one order of one item with one option
ConcPayloads ==
    { [restaurant_id |-> 1,
       items |-> << [menu_id |-> 1, quantity |-> 1, options |-> <<1>>,
                     extra_requests |-> "none"] >>] }

InitConc == payload \in ConcPayloads /\ InitStore

SpecConc == InitConc /\ [][NextConc]_vars

(* ------------------------------ properties ---------------------------- *)

Terminal == {"CANCELLED", "SETTLED"}
Errors == {"NotFoundError", "UnauthorizedError", "InvalidArgumentError"}

\* the rows of a satellite table that belong to the order
RowsOf(tbl, order_id) == { i \in DOMAIN tbl : tbl[i].order_id = order_id }

\* the actor is the order's customer, or the merchant owning its restaurant
Authorized(user_id, role, order_id) ==
    /\ order_id \in DOMAIN orders
    /\ IF role = "CUSTOMER" THEN orders[order_id].customer_id = user_id
       ELSE \E r \in Restaurants :
               r.id = orders[order_id].restaurant_id /\ r.merchant_id = user_id

\* the last call was an update_order_status by an authorized actor that read
\* the order in status pre
UpdateFrom(pre) ==
    /\ last.op = "update"
    /\ last.pre = pre
    /\ Authorized(last.user, last.role, last.oid)

\* C1: an ORDERED order has no satellite row of any kind; an order in any
\* other status has exactly one satellite row of the kind of its status.
C1_StatusMatchesSatellites ==
    \A oid \in DOMAIN orders :
        LET st == orders[oid].status IN
        /\ st = "ORDERED" =>
              /\ RowsOf(cancelled_orders, oid) = {}
              /\ RowsOf(preparing_orders, oid) = {}
              /\ RowsOf(ready_orders, oid) = {}
              /\ RowsOf(settled_orders, oid) = {}
        /\ st = "PREPARING" => Cardinality(RowsOf(preparing_orders, oid)) = 1
        /\ st = "READY" => Cardinality(RowsOf(ready_orders, oid)) = 1
        /\ st = "SETTLED" => Cardinality(RowsOf(settled_orders, oid)) = 1
        /\ st = "CANCELLED" => Cardinality(RowsOf(cancelled_orders, oid)) = 1

\* an order went through every transition up to SETTLED
C1_Witness ==
    /\ last.op = "update" /\ last.res = "OK" /\ last.kind = "Settle"
    /\ orders[last.oid].status = "SETTLED"
    /\ Cardinality(RowsOf(settled_orders, last.oid)) = 1

\* the satellite rows of the order are those of one serial history of
\* transitions ending in its status
SerialHistory(oid) ==
    LET st == orders[oid].status
        nc == Cardinality(RowsOf(cancelled_orders, oid))
        np == Cardinality(RowsOf(preparing_orders, oid))
        nr == Cardinality(RowsOf(ready_orders, oid))
        ns == Cardinality(RowsOf(settled_orders, oid))
    IN
    /\ st = "ORDERED" => << np, nr, ns, nc >> = << 0, 0, 0, 0 >>
    /\ st = "PREPARING" => << np, nr, ns, nc >> = << 1, 0, 0, 0 >>
    /\ st = "READY" => << np, nr, ns, nc >> = << 1, 1, 0, 0 >>
    /\ st = "SETTLED" => << np, nr, ns, nc >> = << 1, 1, 1, 0 >>
    /\ st = "CANCELLED" =>
          /\ << nr, ns, nc >> = << 0, 0, 1 >>
          /\ np \in {0, 1}
          /\ np = 1 => \A i \in RowsOf(cancelled_orders, oid) :
                          cancelled_orders[i].cancelled_by = "MERCHANT"

\* C2: when the requests of two sessions on one order overlap, the persisted
\* state reflects exactly one of the two transitions: once both are over, the
\* status is the target of one of them and the only satellite row added is
\* the one of that status.
C2_OneTransitionPersisted ==
    (\A s \in Sessions : sessions[s].pc = "idle")
        => \A oid \in DOMAIN orders : SerialHistory(oid)

\* the OrderItem rows of the order
ItemIdsOf(order_id) ==
    { i \in DOMAIN order_items : order_items[i].order_id = order_id }

\* the order has the OrderItem and OrderOption rows of every item of the payload
Complete(order_id) ==
    /\ Cardinality(ItemIdsOf(order_id)) = Len(payload.items)
    /\ \A i \in ItemIdsOf(order_id) :
          LET k == Cardinality({ j \in ItemIdsOf(order_id) : j <= i }) IN
          /\ order_items[i] = NewOrderItem(order_id, payload.items[k])
          /\ Cardinality({ j \in DOMAIN order_options :
                             order_options[j].order_item_id = i })
                = Len(payload.items[k].options)

\* C3: no reader ever sees a committed Order missing an OrderItem or an
\* OrderOption of its payload.
C3_NoPartialOrder ==
    \A oid \in DOMAIN orders : oid \notin uncommitted => Complete(oid)

\* C4: a create_order that fails with NotFoundError or InvalidArgumentError,
\* for the first line item or a later one, leaves the Order, OrderItem and
\* OrderOption rows as they were.
C4_FailedCreateWritesNothing ==
    [][(last'.op = "create" /\ last'.res \in {"NotFoundError", "InvalidArgumentError"})
          => UNCHANGED << orders, order_items, order_options >>]_vars

\* a payload whose first item is valid and whose second is not was refused
C4_Witness ==
    /\ last.op = "create"
    /\ last.res = "InvalidArgumentError"
    /\ Len(payload.items) = 2
    /\ payload.restaurant_id = 1
    /\ CheckItems(CHOOSE r \in Restaurants : r.id = 1, << payload.items[1] >>, 0).res
          = "OK"
    /\ orders = <<>> /\ order_items = <<>> /\ order_options = <<>>

\* C5: for an authorized actor and an ORDERED order, exactly customer Cancel,
\* merchant MarkPreparing and merchant Cancel succeed, moving the order to
\* CANCELLED, PREPARING and CANCELLED; every other update fails with
\* InvalidArgumentError.
C5_FromOrdered ==
    UpdateFrom("ORDERED")
       => IF << last.role, last.kind >> = << "CUSTOMER", "Cancel" >>
          THEN last.res = "OK" /\ orders[last.oid].status = "CANCELLED"
          ELSE IF << last.role, last.kind >> = << "MERCHANT", "Preparing" >>
          THEN last.res = "OK" /\ orders[last.oid].status = "PREPARING"
          ELSE IF << last.role, last.kind >> = << "MERCHANT", "Cancel" >>
          THEN last.res = "OK" /\ orders[last.oid].status = "CANCELLED"
          ELSE /\ last.res = "InvalidArgumentError"
               /\ orders[last.oid].status = "ORDERED"

\* a merchant has moved an ORDERED order to PREPARING
C5_Witness ==
    /\ UpdateFrom("ORDERED")
    /\ last.role = "MERCHANT" /\ last.kind = "Preparing" /\ last.res = "OK"
    /\ orders[last.oid].status = "PREPARING"

\* C6: for an authorized actor and a READY order, only customer Settle
\* succeeds, moving the order to SETTLED; every merchant update and every
\* other customer update fails with InvalidArgumentError.
C6_FromReady ==
    UpdateFrom("READY")
       => IF << last.role, last.kind >> = << "CUSTOMER", "Settle" >>
          THEN last.res = "OK" /\ orders[last.oid].status = "SETTLED"
          ELSE /\ last.res = "InvalidArgumentError"
               /\ orders[last.oid].status = "READY"

\* the merchant of a READY order was refused an update of it
C6_Witness ==
    /\ UpdateFrom("READY")
    /\ last.role = "MERCHANT" /\ last.kind = "Cancel"
    /\ last.res = "InvalidArgumentError"
    /\ orders[last.oid].status = "READY"

\* C7: once an order is CANCELLED or SETTLED, every update of it by either
\* role fails, and its status never changes again.
C7_Terminal ==
    [][/\ \A oid \in DOMAIN orders :
             orders[oid].status \in Terminal
                => oid \in DOMAIN orders' /\ orders'[oid].status = orders[oid].status
       /\ (last'.op = "update" /\ last'.pre \in Terminal)
             => last'.res \in {"UnauthorizedError", "InvalidArgumentError"}]_vars

\* the customer of a SETTLED order was refused an update of it
C7_Witness ==
    /\ UpdateFrom("SETTLED")
    /\ last.role = "CUSTOMER"
    /\ last.res = "InvalidArgumentError"
    /\ orders[last.oid].status = "SETTLED"

\* C8: customer Cancel succeeds only from ORDERED and merchant Cancel only from
\* ORDERED or PREPARING, and fails with InvalidArgumentError in every other
\* status; so no order cancelled by its customer was ever PREPARING and no
\* cancelled order was ever READY.
C8_CancelOnlyEarly ==
    /\ (last.op = "update" /\ last.kind = "Cancel"
        /\ Authorized(last.user, last.role, last.oid))
          => IF last.pre = "ORDERED"
                \/ (last.role = "MERCHANT" /\ last.pre = "PREPARING")
             THEN last.res = "OK"
             ELSE last.res = "InvalidArgumentError"
    /\ \A i \in DOMAIN cancelled_orders :
          /\ RowsOf(ready_orders, cancelled_orders[i].order_id) = {}
          /\ cancelled_orders[i].cancelled_by = "CUSTOMER"
                => RowsOf(preparing_orders, cancelled_orders[i].order_id) = {}

\* the merchant of a READY order was refused its Cancel
C8_Witness ==
    /\ UpdateFrom("READY")
    /\ last.kind = "Cancel"
    /\ last.msg = "order can't be cancelled anymore"
    /\ cancelled_orders = <<>>

\* C9: an update_order_status that fails leaves every order's status and every
\* satellite row as they were; a customer's Cancel of a PREPARING order is
\* refused and the order stays PREPARING.
C9_FailedUpdateWritesNothing ==
    [][/\ (last'.op = "update" /\ last'.res \in Errors)
             => UNCHANGED << orders, satellites >>
       /\ (/\ last'.op = "update"
           /\ last'.role = "CUSTOMER" /\ last'.kind = "Cancel"
           /\ Authorized(last'.user, "CUSTOMER", last'.oid)
           /\ orders[last'.oid].status = "PREPARING")
             => /\ last'.res = "InvalidArgumentError"
                /\ orders'[last'.oid].status = "PREPARING"]_vars

\* the customer of a PREPARING order was refused its Cancel
C9_Witness ==
    /\ UpdateFrom("PREPARING")
    /\ last.role = "CUSTOMER" /\ last.kind = "Cancel"
    /\ last.res = "InvalidArgumentError"
    /\ orders[last.oid].status = "PREPARING"
    /\ cancelled_orders = <<>>

\* C10: update_order_status fails with NotFoundError when no order has the id,
\* otherwise with UnauthorizedError when the actor is neither the order's
\* customer nor the merchant owning its restaurant, whether or not the
\* transition asked for is legal; no such actor ever changes an order.
C10_AuthorizedFirst ==
    [][(last'.op = "update" /\ ~Authorized(last'.user, last'.role, last'.oid))
          => /\ last'.res = IF last'.oid \in DOMAIN orders
                            THEN "UnauthorizedError" ELSE "NotFoundError"
             /\ UNCHANGED << orders, satellites >>]_vars

\* an actor who does not own a SETTLED order asked for an update that no
\* SETTLED order takes, and was answered UnauthorizedError
C10_Witness ==
    /\ last.op = "update"
    /\ last.res = "UnauthorizedError"
    /\ last.pre = "SETTLED"
    /\ ~Authorized(last.user, last.role, last.oid)

(* ------------------------ properties of the price --------------------- *)

\* the sum of the first n values of the sequence
RECURSIVE SumOf(_, _)
SumOf(seq, n) == IF n = 0 THEN 0 ELSE seq[n] + SumOf(seq, n - 1)

\* the extra price of the option, 0 when it has none
ExtraOf(option_id) ==
    LET o == CHOOSE o \in Options : o.id = option_id IN
    IF o.extra_price = <<>> THEN 0 ELSE o.extra_price[1]

\* the base price of the item's menu plus the extra prices of its options
ItemPrice(item) ==
    (CHOOSE m \in Menus : m.id = item.menu_id).price
       + SumOf([j \in DOMAIN item.options |-> ExtraOf(item.options[j])],
               Len(item.options))

\* C11: the price_paid of every created order is the sum, over the line items
\* of its payload, of the menu's base price and the extra prices of the
\* options selected, an option without extra price counting 0.
C11_PriceIsSum ==
    \A oid \in DOMAIN orders :
        orders[oid].price_paid
           = SumOf([i \in DOMAIN payload.items |-> ItemPrice(payload.items[i])],
                   Len(payload.items))

\* an order of two items, one with a priced option and one with a free option
C11_Witness ==
    /\ last.op = "create" /\ last.res = "OK"
    /\ Len(payload.items) = 2
    /\ payload.items[1].options = <<1>>
    /\ payload.items[2].options = <<2>>
    /\ orders # <<>>
    /\ orders[1].price_paid = 800 + 150 + 800

(* --------------------- properties of the stored rows ------------------ *)

\* C12: no update_order_status call, successful or failing, changes the
\* price_paid, the customer id, the restaurant id or the ordered_at of any
\* order.
C12_PriceFixedAtCreation ==
    [][last'.op = "update"
          => \A oid \in DOMAIN orders :
                /\ oid \in DOMAIN orders'
                /\ orders'[oid].price_paid = orders[oid].price_paid
                /\ orders'[oid].customer_id = orders[oid].customer_id
                /\ orders'[oid].restaurant_id = orders[oid].restaurant_id
                /\ orders'[oid].ordered_at = orders[oid].ordered_at]_vars

\* a priced order was cancelled and still has its price
C12_Witness ==
    /\ last.op = "update" /\ last.res = "OK" /\ last.kind = "Cancel"
    /\ orders[last.oid].status = "CANCELLED"
    /\ orders[last.oid].price_paid = 800 + 150

\* the satellite table is as it was, or has one more row, added at its end
\* by a successful update_order_status moving the row's order into the status
AppendedByTransition(old, new, status) ==
    \/ new = old
    \/ /\ Len(new) = Len(old) + 1
       /\ SubSeq(new, 1, Len(old)) = old
       /\ last'.op = "update" /\ last'.res = "OK"
       /\ new[Len(new)].order_id = last'.oid
       /\ orders[last'.oid].status # status
       /\ orders'[last'.oid].status = status

\* C13: a satellite row is inserted only by a successful update_order_status
\* that moves the order into the status of the row, one row at a time, and no
\* operation deletes or changes a row once inserted.
C13_SatellitesAppendOnly ==
    [][/\ AppendedByTransition(cancelled_orders, cancelled_orders', "CANCELLED")
       /\ AppendedByTransition(preparing_orders, preparing_orders', "PREPARING")
       /\ AppendedByTransition(ready_orders, ready_orders', "READY")
       /\ AppendedByTransition(settled_orders, settled_orders', "SETTLED")
       /\ Len(cancelled_orders') + Len(preparing_orders') + Len(ready_orders')
             + Len(settled_orders')
          <= Len(cancelled_orders) + Len(preparing_orders) + Len(ready_orders)
                + Len(settled_orders) + 1]_vars

\* a merchant cancelled a PREPARING order, whose PreparingOrder row is kept
C13_Witness ==
    /\ last.op = "update" /\ last.res = "OK"
    /\ last.role = "MERCHANT" /\ last.kind = "Cancel" /\ last.pre = "PREPARING"
    /\ RowsOf(preparing_orders, last.oid) # {}
    /\ RowsOf(cancelled_orders, last.oid) # {}

(* ------------------- properties of the validation --------------------- *)

CreateErrors == {"NotFoundError", "InvalidArgumentError"}

\* the positions of the item's options that belong to the customization
SelectedOf(item, c) ==
    { j \in DOMAIN item.options :
        \E o \in Options : o.id = item.options[j] /\ o.customization_id = c.id }

\* the item selects no option of some required customization of its menu
MissesRequired(item) ==
    \E c \in Customizations :
        c.menu_id = item.menu_id /\ c.required /\ SelectedOf(item, c) = {}

\* the item selects two or more options of some unique customization of its menu
SelectsTwice(item) ==
    \E c \in Customizations :
        c.menu_id = item.menu_id /\ c.unique /\ Cardinality(SelectedOf(item, c)) >= 2

\* the item names an existing menu of another restaurant than the payload's
WrongRestaurant(item) ==
    \E m \in Menus : m.id = item.menu_id /\ m.restaurant_id # payload.restaurant_id

\* the restaurant, every menu and every option the payload names exist
AllNamedExist ==
    /\ \E r \in Restaurants : r.id = payload.restaurant_id
    /\ \A i \in DOMAIN payload.items :
          /\ \E m \in Menus : m.id = payload.items[i].menu_id
          /\ \A j \in DOMAIN payload.items[i].options :
                \E o \in Options : o.id = payload.items[i].options[j]

\* the OrderOption rows of the OrderItem whose option belongs to the customization
PersistedOf(item_id, c) ==
    { j \in DOMAIN order_options :
        /\ order_options[j].order_item_id = item_id
        /\ \E o \in Options : o.id = order_options[j].option_id
                              /\ o.customization_id = c.id }

\* every OrderItem has an option of each required customization of its menu
PersistedRequired ==
    \A i \in DOMAIN order_items : \A c \in Customizations :
        (c.menu_id = order_items[i].menu_id /\ c.required) => PersistedOf(i, c) # {}

\* no OrderItem has two options of one unique customization
PersistedUnique ==
    \A i \in DOMAIN order_items : \A c \in Customizations :
        c.unique => Cardinality(PersistedOf(i, c)) <= 1

\* every OrderItem names a menu of the restaurant of its order
PersistedSameRestaurant ==
    \A i \in DOMAIN order_items :
        \E m \in Menus :
            /\ m.id = order_items[i].menu_id
            /\ m.restaurant_id = orders[order_items[i].order_id].restaurant_id

\* a create_order call of this step failed, with InvalidArgumentError unless
\* some restaurant, menu or option named by the payload does not exist, and
\* wrote nothing
RefusedUnchanged ==
    /\ last'.res \in CreateErrors
    /\ AllNamedExist => last'.res = "InvalidArgumentError"
    /\ UNCHANGED << orders, order_items, order_options >>

\* C14 as stated: create_order fails with InvalidArgumentError and persists
\* nothing whenever some line item selects no option of a required
\* customization of its menu, and every persisted OrderItem has an option of
\* each required customization of its menu.
C14_RequiredAlwaysInvalidArgument ==
    /\ (last.op = "create" /\ \E i \in DOMAIN payload.items :
                                 MissesRequired(payload.items[i]))
          => last.res = "InvalidArgumentError" /\ orders = <<>>
    /\ PersistedRequired

\* C14 amended: create_order fails and persists nothing whenever some line
\* item selects no option of a required customization of its menu; the error
\* is InvalidArgumentError when the restaurant and every menu and option the
\* payload names exist (a lookup that runs earlier raises NotFoundError
\* otherwise); every persisted OrderItem has an option of each required
\* customization of its menu.
C14_RequiredEnforced ==
    [][/\ (last'.op = "create" /\ \E i \in DOMAIN payload.items :
                                    MissesRequired(payload.items[i]))
             => RefusedUnchanged
       /\ PersistedRequired']_vars

\* an item of menu 1 without any option was refused for its required customization
C14_Witness ==
    /\ last.op = "create"
    /\ last.res = "InvalidArgumentError" /\ last.msg = "required customization"
    /\ \E i \in DOMAIN payload.items :
          payload.items[i].options = <<>> /\ MissesRequired(payload.items[i])
    /\ orders = <<>> /\ order_items = <<>> /\ order_options = <<>>

\* C15 as stated: create_order fails with InvalidArgumentError and persists
\* nothing whenever some line item selects two or more options of one unique
\* customization of its menu, and no persisted OrderItem has two options of
\* one unique customization.
C15_UniqueAlwaysInvalidArgument ==
    /\ (last.op = "create" /\ \E i \in DOMAIN payload.items :
                                 SelectsTwice(payload.items[i]))
          => last.res = "InvalidArgumentError" /\ orders = <<>>
    /\ PersistedUnique

\* C15 amended: create_order fails and persists nothing whenever some line
\* item selects two or more options, the same option twice included, of one
\* unique customization of its menu; the error is InvalidArgumentError when
\* the restaurant and every menu and option the payload names exist; no
\* persisted OrderItem has two options of one unique customization.
C15_UniqueEnforced ==
    [][/\ (last'.op = "create" /\ \E i \in DOMAIN payload.items :
                                    SelectsTwice(payload.items[i]))
             => RefusedUnchanged
       /\ PersistedUnique']_vars

\* an item selecting the same option of a unique customization twice was refused
C15_Witness ==
    /\ last.op = "create"
    /\ last.res = "InvalidArgumentError" /\ last.msg = "unique customization"
    /\ \E i \in DOMAIN payload.items : payload.items[i].options = <<1, 1>>
    /\ orders = <<>> /\ order_items = <<>> /\ order_options = <<>>

\* C16 as stated: create_order fails with InvalidArgumentError and persists
\* nothing whenever some line item names an existing menu of another
\* restaurant than the order's, and every persisted OrderItem names a menu of
\* the restaurant of its order.
C16_WrongRestaurantAlwaysInvalidArgument ==
    /\ (last.op = "create" /\ \E i \in DOMAIN payload.items :
                                 WrongRestaurant(payload.items[i]))
          => last.res = "InvalidArgumentError" /\ orders = <<>>
    /\ PersistedSameRestaurant

\* C16 amended: create_order fails and persists nothing whenever some line
\* item names an existing menu of another restaurant than the order's; the
\* error is InvalidArgumentError when the restaurant and every menu and option
\* the payload names exist; every persisted OrderItem names a menu of the
\* restaurant of its order.
C16_WrongRestaurantRefused ==
    [][/\ (last'.op = "create" /\ \E i \in DOMAIN payload.items :
                                    WrongRestaurant(payload.items[i]))
             => RefusedUnchanged
       /\ PersistedSameRestaurant']_vars

\* a second item naming a menu of the other restaurant was refused
C16_Witness ==
    /\ last.op = "create"
    /\ last.res = "InvalidArgumentError" /\ last.msg = "menu not in restaurant"
    /\ Len(payload.items) = 2
    /\ ~WrongRestaurant(payload.items[1])
    /\ WrongRestaurant(payload.items[2])
    /\ orders = <<>> /\ order_items = <<>> /\ order_options = <<>>

\* C17: every Order of the store owns at least one OrderItem; no state holds
\* an Order without OrderItems, such as one created from a payload whose item
\* list is empty.
C17_EveryOrderHasItem ==
    \A oid \in DOMAIN orders : ItemIdsOf(oid) # {}

(* ------------------ the first violation of a payload ------------------ *)

MenuMissing(item) == ~ \E m \in Menus : m.id = item.menu_id

OptionMissing(item, j) == ~ \E o \in Options : o.id = item.options[j]

\* the option exists and belongs to a customization of another menu
OptionOfOtherMenu(item, j) ==
    \E o \in Options : \E c \in Customizations :
        /\ o.id = item.options[j] /\ c.id = o.customization_id
        /\ c.menu_id # item.menu_id

BadOptions(item) ==
    { j \in DOMAIN item.options : OptionMissing(item, j) \/ OptionOfOtherMenu(item, j) }

Least(S) == CHOOSE x \in S : \A y \in S : x <= y

\* the message of the first bad option of the item
OptionMsg(item) ==
    IF OptionMissing(item, Least(BadOptions(item)))
    THEN "option not found" ELSE "option not in menu"

ItemValid(item) ==
    /\ ~MenuMissing(item)
    /\ ~WrongRestaurant(item)
    /\ item.quantity >= 1
    /\ BadOptions(item) = {}
    /\ ~MissesRequired(item)
    /\ ~SelectsTwice(item)

InvalidItems == { i \in DOMAIN payload.items : ~ItemValid(payload.items[i]) }

\* the violation of the item found first when the checks run quantity, menu
\* existence, per-option checks, required, unique
QuantityFirstMsg(item) ==
    IF item.quantity < 1 THEN "quantity"
    ELSE IF MenuMissing(item) THEN "menu not found"
    ELSE IF WrongRestaurant(item) THEN "menu not in restaurant"
    ELSE IF BadOptions(item) # {} THEN OptionMsg(item)
    ELSE IF MissesRequired(item) THEN "required customization"
    ELSE "unique customization"

\* the violation of the item found first when the checks run menu existence,
\* the menu's restaurant, quantity, per-option checks, required, unique
MenuFirstMsg(item) ==
    IF MenuMissing(item) THEN "menu not found"
    ELSE IF WrongRestaurant(item) THEN "menu not in restaurant"
    ELSE IF item.quantity < 1 THEN "quantity"
    ELSE IF BadOptions(item) # {} THEN OptionMsg(item)
    ELSE IF MissesRequired(item) THEN "required customization"
    ELSE "unique customization"

RestaurantExists == \E r \in Restaurants : r.id = payload.restaurant_id

\* C18 as stated: create_order reports the first violation, the items taken
\* in payload order and the checks of an item in the order quantity, menu
\* existence, per-option checks, required and unique checks; an item with a
\* quantity below 1 and a nonexistent menu is refused for its quantity.
C18_QuantityCheckedFirst ==
    (last.op = "create" /\ RestaurantExists /\ InvalidItems # {})
       => last.msg = QuantityFirstMsg(payload.items[Least(InvalidItems)])

\* C18 amended: create_order reports the first violation, the items taken in
\* payload order and the checks of an item in the order menu existence, the
\* menu's restaurant, quantity, per-option checks, required check, unique
\* check; an item with a quantity below 1 and a nonexistent menu is refused
\* with the NotFoundError of the menu.
C18_FirstViolationReported ==
    (last.op = "create" /\ RestaurantExists)
       => IF InvalidItems = {} THEN last.res = "OK"
          ELSE /\ last.res \in CreateErrors
               /\ last.msg = MenuFirstMsg(payload.items[Least(InvalidItems)])
               /\ last.res = "NotFoundError"
                     <=> last.msg \in {"menu not found", "option not found"}

\* an item with a quantity of 0 and a nonexistent menu, after a valid item,
\* was refused for its menu
C18_Witness ==
    /\ last.op = "create"
    /\ last.res = "NotFoundError" /\ last.msg = "menu not found"
    /\ Len(payload.items) = 2
    /\ ItemValid(payload.items[1])
    /\ payload.items[2].quantity < 1
    /\ MenuMissing(payload.items[2])

(* ---------------------- properties of the status ---------------------- *)

\* the status variant of the satellite row that the successful update recorded
\* in last has appended
WrittenStatus ==
    IF last.kind = "Cancel"
    THEN LET r == cancelled_orders[Len(cancelled_orders)] IN
         [variant |-> "Cancelled", cancelled_by |-> r.cancelled_by,
          cancelled_time |-> r.cancelled_time, reason |-> r.reason]
    ELSE IF last.kind = "Preparing"
    THEN [variant |-> "Preparing",
          prepared_at |-> preparing_orders[Len(preparing_orders)].prepared_at]
    ELSE IF last.kind = "Ready"
    THEN [variant |-> "Ready", ready_at |-> ready_orders[Len(ready_orders)].ready_at]
    ELSE [variant |-> "Settled",
          settled_at |-> settled_orders[Len(settled_orders)].settled_at]

\* C19: a get_order_status by an authorized actor that follows a successful
\* update_order_status on the order returns the variant of the new status with
\* the fields of the satellite row just written, for a cancellation the
\* cancelled_by, cancelled_time and reason of the request; no get_order_status
\* fails with InternalServerError.
C19_StatusRoundTrip ==
    [][/\ (/\ last.op = "update" /\ last.res = "OK"
           /\ last'.op = "status" /\ last'.oid = last.oid
           /\ Authorized(last'.user, last'.role, last'.oid))
             => /\ last'.res = "OK"
                /\ last'.ret = WrittenStatus
                /\ last'.ret.variant
                      = [CANCELLED |-> "Cancelled", PREPARING |-> "Preparing",
                         READY |-> "Ready", SETTLED |-> "Settled"][orders[last.oid].status]
                /\ last.kind = "Cancel"
                      => /\ last'.ret.reason = last.reason
                         /\ last'.ret.cancelled_by = last.role
       /\ last'.op = "status" => last'.res # "InternalServerError"]_vars

\* the status of an order cancelled by its merchant was read back
C19_Witness ==
    /\ last.op = "status" /\ last.res = "OK"
    /\ Authorized(last.user, last.role, last.oid)
    /\ last.ret.variant = "Cancelled"
    /\ last.ret.cancelled_by = "MERCHANT"
    /\ last.ret.reason = "late"
    /\ orders[last.oid].status = "CANCELLED"

\* the moves of the status that the machine has
Forward ==
    { << "ORDERED", "PREPARING" >>, << "PREPARING", "READY" >>,
      << "READY", "SETTLED" >>,
      << "ORDERED", "CANCELLED" >>, << "PREPARING", "CANCELLED" >> }

\* the satellite rows of the order, of all kinds
TransitionsOf(oid) ==
    Cardinality(RowsOf(preparing_orders, oid)) + Cardinality(RowsOf(ready_orders, oid))
       + Cardinality(RowsOf(settled_orders, oid))
       + Cardinality(RowsOf(cancelled_orders, oid))

\* the order has been in every status that precedes its own, as its satellite
\* rows record, and has at most one row of each kind
PassedThrough(oid) ==
    LET st == orders[oid].status IN
    /\ st = "READY" => RowsOf(preparing_orders, oid) # {}
    /\ st = "SETTLED" =>
          RowsOf(preparing_orders, oid) # {} /\ RowsOf(ready_orders, oid) # {}
    /\ st = "CANCELLED" =>
          RowsOf(ready_orders, oid) = {} /\ RowsOf(settled_orders, oid) = {}
    /\ Cardinality(RowsOf(preparing_orders, oid)) <= 1
    /\ Cardinality(RowsOf(ready_orders, oid)) <= 1
    /\ Cardinality(RowsOf(settled_orders, oid)) <= 1
    /\ Cardinality(RowsOf(cancelled_orders, oid)) <= 1
    /\ TransitionsOf(oid) <= 3

\* C20: under calls that do not overlap, every change of an order's status is
\* one of ORDERED -> PREPARING -> READY -> SETTLED or a cancellation from
\* ORDERED or PREPARING; an order is never READY without having been
\* PREPARING nor SETTLED without having been PREPARING and READY, has at most
\* three successful transitions and at most one satellite row of each kind.
C20_ForwardOnly ==
    [][\A oid \in DOMAIN orders :
          /\ oid \in DOMAIN orders'
          /\ \/ orders'[oid].status = orders[oid].status
             \/ /\ << orders[oid].status, orders'[oid].status >> \in Forward
                /\ TransitionsOf(oid)' = TransitionsOf(oid) + 1
          /\ PassedThrough(oid)']_vars

\* an order was settled after three transitions
C20_Witness ==
    /\ last.op = "update" /\ last.res = "OK" /\ last.pre = "READY"
    /\ orders[last.oid].status = "SETTLED"
    /\ TransitionsOf(last.oid) = 3

====
